---- MODULE Spec2Model ----
(***************************************************************************)
(* Model of BudgetEstimator (src/budget_estimation.py): the five rate-     *)
(* based estimators, estimate_budget and refine_budget_with_llm.           *)
(*                                                                         *)
(* Representation.                                                         *)
(*   - A Python str is a sequence of one-character strings, so that        *)
(*     str.lower() and the substring test `word in text` are computed      *)
(*     character by character.                                             *)
(*   - A Python dict is a function whose DOMAIN is the set of keys that    *)
(*     are present; d.get(k, default) is Get(d, k, default).               *)
(*   - Amounts are held in hundredths of a currency unit (Scale), which    *)
(*     makes every rate of the tables (0.05 .. 400) an integer; the        *)
(*     arithmetic is exact.                                                *)
(***************************************************************************)
EXTENDS Integers, Sequences, FiniteSets, TLC

VARIABLES plan, pc, budget, passed_budget, llm, outcome

vars == <<plan, pc, budget, passed_budget, llm, outcome>>

\* One currency unit, in the model's unit of account (hundredths).
Scale == 100

----------------------------------------------------------------------------
(* Python strings *)

UpperAlphabet ==
  <<"A","B","C","D","E","F","G","H","I","J","K","L","M",
    "N","O","P","Q","R","S","T","U","V","W","X","Y","Z">>
LowerAlphabet ==
  <<"a","b","c","d","e","f","g","h","i","j","k","l","m",
    "n","o","p","q","r","s","t","u","v","w","x","y","z">>

\* str.lower() on one character.
LowerChar(c) ==
  IF \E i \in 1..26 : UpperAlphabet[i] = c
    THEN LowerAlphabet[CHOOSE i \in 1..26 : UpperAlphabet[i] = c]
    ELSE c

\* str.lower()
Lower(s) == [i \in 1..Len(s) |-> LowerChar(s[i])]

\* `word in text` for two str operands: word occurs as a contiguous substring.
Contains(text, word) ==
  \E i \in 0..(Len(text) - Len(word)) :
    \A j \in 1..Len(word) : text[i + j] = word[j]

\* dict.get(key, default)
Get(d, key, default) == IF key \in DOMAIN d THEN d[key] ELSE default

\* the empty dict {}
EmptyDict == <<>>

\* `not x` for a dict or a list: true of the empty container.
IsFalsy(x) == DOMAIN x = {}

----------------------------------------------------------------------------
(* String literals of the source *)

s_hotel == <<"h", "o", "t", "e", "l">>
s_hostel == <<"h", "o", "s", "t", "e", "l">>
s_apartment == <<"a", "p", "a", "r", "t", "m", "e", "n", "t">>
s_vacation_rental == <<"v", "a", "c", "a", "t", "i", "o", "n", "_", "r", "e", "n", "t", "a", "l">>
s_resort == <<"r", "e", "s", "o", "r", "t">>
s_budget == <<"b", "u", "d", "g", "e", "t">>
s_medium == <<"m", "e", "d", "i", "u", "m">>
s_luxury == <<"l", "u", "x", "u", "r", "y">>
s_flight == <<"f", "l", "i", "g", "h", "t">>
s_train == <<"t", "r", "a", "i", "n">>
s_bus == <<"b", "u", "s">>
s_car == <<"c", "a", "r">>
s_economy == <<"e", "c", "o", "n", "o", "m", "y">>
s_business == <<"b", "u", "s", "i", "n", "e", "s", "s">>
s_first == <<"f", "i", "r", "s", "t">>
s_sightseeing == <<"s", "i", "g", "h", "t", "s", "e", "e", "i", "n", "g">>
s_museum == <<"m", "u", "s", "e", "u", "m">>
s_adventure == <<"a", "d", "v", "e", "n", "t", "u", "r", "e">>
s_cultural == <<"c", "u", "l", "t", "u", "r", "a", "l">>
s_entertainment == <<"e", "n", "t", "e", "r", "t", "a", "i", "n", "m", "e", "n", "t">>
s_shopping == <<"s", "h", "o", "p", "p", "i", "n", "g">>
s_dining == <<"d", "i", "n", "i", "n", "g">>
s_free == <<"f", "r", "e", "e">>
s_standard == <<"s", "t", "a", "n", "d", "a", "r", "d">>
s_premium == <<"p", "r", "e", "m", "i", "u", "m">>
s_europe == <<"e", "u", "r", "o", "p", "e">>
s_usa == <<"u", "s", "a">>
s_canada == <<"c", "a", "n", "a", "d", "a">>
s_australia == <<"a", "u", "s", "t", "r", "a", "l", "i", "a">>
s_asia == <<"a", "s", "i", "a">>
s_south_america == <<"s", "o", "u", "t", "h", " ", "a", "m", "e", "r", "i", "c", "a">>
s_africa == <<"a", "f", "r", "i", "c", "a">>

(* Input strings used to exercise the estimators *)

in_Hostel == <<"H", "o", "s", "t", "e", "l">>
in_RESORT == <<"R", "E", "S", "O", "R", "T">>
in_igloo == <<"i", "g", "l", "o", "o">>
in_LUXURY == <<"L", "U", "X", "U", "R", "Y">>
in_deluxe == <<"d", "e", "l", "u", "x", "e">>
in_Bus == <<"B", "u", "s">>
in_rocket == <<"r", "o", "c", "k", "e", "t">>
in_First == <<"F", "i", "r", "s", "t">>
in_vip == <<"v", "i", "p">>
in_Museum == <<"M", "u", "s", "e", "u", "m">>
in_yoga == <<"y", "o", "g", "a">>
in_PREMIUM == <<"P", "R", "E", "M", "I", "U", "M">>
in_gold == <<"g", "o", "l", "d">>
in_ParisFrance == <<"P", "a", "r", "i", "s", ",", " ", "F", "r", "a", "n", "c", "e">>
in_TokyoAsia == <<"T", "o", "k", "y", "o", ",", " ", "A", "s", "i", "a">>
in_EuropeOrAsia == <<"E", "u", "r", "o", "p", "e", " ", "o", "r", " ", "A", "s", "i", "a">>
in_AsiaUsa == <<"a", "s", "i", "a", "/", "U", "S", "A">>
in_Jerusalem == <<"J", "e", "r", "u", "s", "a", "l", "e", "m">>
in_SouthAmerica == <<"S", "o", "u", "t", "h", " ", "A", "m", "e", "r", "i", "c", "a">>
in_SouthAmericaJoined == <<"S", "o", "u", "t", "h", "A", "m", "e", "r", "i", "c", "a">>
in_CANADA == <<"C", "A", "N", "A", "D", "A">>

----------------------------------------------------------------------------
(* Rate tables.  Amounts are in hundredths: 50 per night is 50 * Scale,    *)
(* 0.15 per distance unit is 15.                                           *)

\* rates of _estimate_accommodation_cost, per night
AccommodationRates ==
     (s_hotel           :> (s_budget :> 50 * Scale  @@ s_medium :> 100 * Scale @@ s_luxury :> 200 * Scale))
  @@ (s_hostel          :> (s_budget :> 20 * Scale  @@ s_medium :> 30 * Scale  @@ s_luxury :> 50 * Scale))
  @@ (s_apartment       :> (s_budget :> 70 * Scale  @@ s_medium :> 120 * Scale @@ s_luxury :> 250 * Scale))
  @@ (s_vacation_rental :> (s_budget :> 80 * Scale  @@ s_medium :> 150 * Scale @@ s_luxury :> 300 * Scale))
  @@ (s_resort          :> (s_budget :> 100 * Scale @@ s_medium :> 200 * Scale @@ s_luxury :> 400 * Scale))

\* rates of _estimate_transportation_cost, per distance unit
TransportationRates ==
     (s_flight :> (s_economy :> 15 @@ s_business :> 30 @@ s_first :> 50))
  @@ (s_train  :> (s_economy :> 10 @@ s_business :> 20 @@ s_first :> 30))
  @@ (s_bus    :> (s_economy :> 5  @@ s_business :> 8  @@ s_first :> 12))
  @@ (s_car    :> (s_economy :> 25 @@ s_business :> 35 @@ s_first :> 50))

\* rates of _estimate_activity_cost, per activity
ActivityRates ==
     (s_sightseeing   :> (s_free :> 0 @@ s_standard :> 15 * Scale @@ s_premium :> 30 * Scale))
  @@ (s_museum        :> (s_free :> 0 @@ s_standard :> 20 * Scale @@ s_premium :> 40 * Scale))
  @@ (s_adventure     :> (s_standard :> 50 * Scale @@ s_premium :> 100 * Scale))
  @@ (s_cultural      :> (s_standard :> 25 * Scale @@ s_premium :> 50 * Scale))
  @@ (s_entertainment :> (s_standard :> 30 * Scale @@ s_premium :> 60 * Scale))
  @@ (s_shopping      :> (s_standard :> 50 * Scale @@ s_premium :> 100 * Scale))
  @@ (s_dining        :> (s_standard :> 40 * Scale @@ s_premium :> 80 * Scale))

\* keyword groups of _estimate_food_cost, in the order they are tested
ExpensiveWords == {s_europe, s_usa, s_canada, s_australia}
CheapWords == {s_asia, s_south_america, s_africa}

----------------------------------------------------------------------------
(* The estimators *)

\* A plausible slip: an unknown type gets no table at all, so that its rate
\* is the fixed default whatever the quality.
EstimateAccommodationCostNoTypeFallback(accommodation, duration) ==
  IF IsFalsy(accommodation) THEN 0
  ELSE
    LET accommodation_type == Lower(Get(accommodation, "type", s_hotel))
        quality == Lower(Get(accommodation, "quality", s_medium))
        rate == Get(Get(AccommodationRates, accommodation_type, EmptyDict),
                    quality, 100 * Scale)
    IN  rate * duration

EstimateAccommodationCost(accommodation, duration) ==
  IF IsFalsy(accommodation) THEN 0
  ELSE
    LET accommodation_type == Lower(Get(accommodation, "type", s_hotel))
        quality == Lower(Get(accommodation, "quality", s_medium))
        default_rate == Get(AccommodationRates, s_hotel, (s_medium :> 100 * Scale))
        rate == Get(Get(AccommodationRates, accommodation_type, default_rate),
                    quality, 100 * Scale)
    IN  rate * duration

\* A plausible slip: the type and quality are looked up as given, without
\* lower().
EstimateTransportationCostNoLower(transportation) ==
  IF IsFalsy(transportation) THEN 0
  ELSE
    LET transportation_type == Get(transportation, "type", s_flight)
        distance == Get(transportation, "distance", 0)
        quality == Get(transportation, "quality", s_economy)
        default_rate == Get(TransportationRates, s_flight, (s_economy :> 15))
        rate == Get(Get(TransportationRates, transportation_type, default_rate),
                    quality, 15)
    IN  rate * distance

EstimateTransportationCost(transportation) ==
  IF IsFalsy(transportation) THEN 0
  ELSE
    LET transportation_type == Lower(Get(transportation, "type", s_flight))
        distance == Get(transportation, "distance", 0)
        quality == Lower(Get(transportation, "quality", s_economy))
        default_rate == Get(TransportationRates, s_flight, (s_economy :> 15))
        rate == Get(Get(TransportationRates, transportation_type, default_rate),
                    quality, 15)
    IN  rate * distance

\* A plausible slip: the rate is charged per hour of the activity.
ActivityRatePerHour(activity) ==
  LET activity_type == Lower(Get(activity, "type", s_sightseeing))
      duration == Get(activity, "duration", 2)
      quality == Lower(Get(activity, "quality", s_standard))
      default_rate == Get(ActivityRates, s_sightseeing, (s_standard :> 15 * Scale))
  IN  Get(Get(ActivityRates, activity_type, default_rate), quality, 15 * Scale) * duration

\* the rate of one activity: the body of the loop of _estimate_activity_cost
ActivityRate(activity) ==
  LET activity_type == Lower(Get(activity, "type", s_sightseeing))
      duration == Get(activity, "duration", 2)
      quality == Lower(Get(activity, "quality", s_standard))
      default_rate == Get(ActivityRates, s_sightseeing, (s_standard :> 15 * Scale))
  IN  Get(Get(ActivityRates, activity_type, default_rate), quality, 15 * Scale)

\* the loop of _estimate_activity_cost over activities[i..]
RECURSIVE ActivityCostFrom(_, _, _)
ActivityCostFrom(activities, i, total_cost) ==
  IF i > Len(activities) THEN total_cost
  ELSE ActivityCostFrom(activities, i + 1, total_cost + ActivityRate(activities[i]))

EstimateActivityCost(activities) ==
  IF IsFalsy(activities) THEN 0
  ELSE ActivityCostFrom(activities, 1, 0)

\* destination_factor, in hundredths (1.5 is 150)
DestinationFactor(destination) ==
  IF \E word \in ExpensiveWords : Contains(Lower(destination), word) THEN 150
  ELSE IF \E word \in CheapWords : Contains(Lower(destination), word) THEN 70
  ELSE 100

\* A plausible slip: the two groups are tested in the other order.
EstimateFoodCostCheapFirst(destination, duration) ==
  LET destination_factor ==
        IF \E word \in CheapWords : Contains(Lower(destination), word) THEN 70
        ELSE IF \E word \in ExpensiveWords : Contains(Lower(destination), word) THEN 150
        ELSE 100
  IN  (40 * destination_factor) * duration

EstimateFoodCost(destination, duration) ==
  LET destination_factor == DestinationFactor(destination)
      daily_food_cost == 40 * destination_factor
  IN  daily_food_cost * duration

EstimateMiscellaneousCost(destination, duration) == (20 * Scale) * duration

\* sum([...]) of a list of numbers
RECURSIVE Sum(_)
Sum(xs) == IF xs = <<>> THEN 0 ELSE Head(xs) + Sum(Tail(xs))

\* Plausible slips in estimate_budget: the total leaves a category out, and
\* a missing duration defaults to 1.
EstimateBudgetTotalWithoutMisc(travel_plan) ==
  LET destination == Get(travel_plan, "destination", <<>>)
      duration == Get(travel_plan, "duration", 0)
      activities == Get(travel_plan, "activities", <<>>)
      accommodation == Get(travel_plan, "accommodation", EmptyDict)
      transportation == Get(travel_plan, "transportation", EmptyDict)
      b == [accommodation  |-> EstimateAccommodationCost(accommodation, duration),
            transportation |-> EstimateTransportationCost(transportation),
            activities     |-> EstimateActivityCost(activities),
            food           |-> EstimateFoodCost(destination, duration),
            miscellaneous  |-> EstimateMiscellaneousCost(destination, duration),
            total          |-> 0]
  IN  [b EXCEPT !.total = Sum(<<b.accommodation, b.transportation,
                                b.activities, b.food>>)]

EstimateBudgetDurationDefaultOne(travel_plan) ==
  LET destination == Get(travel_plan, "destination", <<>>)
      duration == Get(travel_plan, "duration", 1)
      activities == Get(travel_plan, "activities", <<>>)
      accommodation == Get(travel_plan, "accommodation", EmptyDict)
      transportation == Get(travel_plan, "transportation", EmptyDict)
      b == [accommodation  |-> EstimateAccommodationCost(accommodation, duration),
            transportation |-> EstimateTransportationCost(transportation),
            activities     |-> EstimateActivityCost(activities),
            food           |-> EstimateFoodCost(destination, duration),
            miscellaneous  |-> EstimateMiscellaneousCost(destination, duration),
            total          |-> 0]
  IN  [b EXCEPT !.total = Sum(<<b.accommodation, b.transportation,
                                b.activities, b.food, b.miscellaneous>>)]

\* estimate_budget
EstimateBudget(travel_plan) ==
  LET destination == Get(travel_plan, "destination", <<>>)
      duration == Get(travel_plan, "duration", 0)
      activities == Get(travel_plan, "activities", <<>>)
      accommodation == Get(travel_plan, "accommodation", EmptyDict)
      transportation == Get(travel_plan, "transportation", EmptyDict)
      b == [accommodation  |-> EstimateAccommodationCost(accommodation, duration),
            transportation |-> EstimateTransportationCost(transportation),
            activities     |-> EstimateActivityCost(activities),
            food           |-> EstimateFoodCost(destination, duration),
            miscellaneous  |-> EstimateMiscellaneousCost(destination, duration),
            total          |-> 0]
  IN  [b EXCEPT !.total = Sum(<<b.accommodation, b.transportation,
                                b.activities, b.food, b.miscellaneous>>)]

----------------------------------------------------------------------------
(* refine_budget_with_llm and its collaborators *)

\* Python values a call can return, tagged by their type.
PyDict(d) == [kind |-> "dict", dict |-> d]
PyList(l) == [kind |-> "list", list |-> l]
PyNumber(n) == [kind |-> "number", number |-> n]
PyNone == [kind |-> "None"]

\* json.dumps(travel_plan, indent=2) raises TypeError when the plan holds a
\* value that is no str, number, bool, None, list or dict.  The one field of
\* the modelled plans that can hold such a value is "departure", which is
\* either a str or a datetime.date.
JsonDumpsRaises(travel_plan) ==
  /\ "departure" \in DOMAIN travel_plan
  /\ travel_plan["departure"].pytype = "date"

\* Response texts of the LLM collaborator.  They are opaque to the program,
\* which only hands them to json.loads.
TextProse == "Here is your refined budget: about 1900 in total."
TextEmpty == ""
TextPrefixed == "Refined budget: {\"total\": 1895}"
TextNumber == "42"
TextList == "[]"
TextNull == "null"
TextPartial == "{\"total\": 5}"
TextWrongTotal ==
  "{\"accommodation\": 800, \"transportation\": 540, \"activities\": 115, \"food\": 300, \"miscellaneous\": 140, \"total\": 2000}"
TextBreakdown ==
  "{\"accommodation\": 800, \"transportation\": 540, \"activities\": 115, \"food\": 300, \"miscellaneous\": 140, \"total\": 1895}"

ResponseTexts ==
  {TextProse, TextEmpty, TextPrefixed, TextNumber, TextList, TextNull,
   TextPartial, TextWrongTotal, TextBreakdown}

\* json.loads on the response texts above: the parsed value, or a raised
\* JSONDecodeError.  Amounts are converted to hundredths.
JsonLoads(text) ==
  CASE text = TextNumber -> [raised |-> FALSE, value |-> PyNumber(42)]
    [] text = TextList -> [raised |-> FALSE, value |-> PyList(<<>>)]
    [] text = TextNull -> [raised |-> FALSE, value |-> PyNone]
    [] text = TextPartial ->
         [raised |-> FALSE, value |-> PyDict([total |-> 5 * Scale])]
    [] text = TextWrongTotal ->
         [raised |-> FALSE,
          value |-> PyDict([accommodation |-> 800 * Scale, transportation |-> 540 * Scale,
                            activities |-> 115 * Scale, food |-> 300 * Scale,
                            miscellaneous |-> 140 * Scale, total |-> 2000 * Scale])]
    [] text = TextBreakdown ->
         [raised |-> FALSE,
          value |-> PyDict([accommodation |-> 800 * Scale, transportation |-> 540 * Scale,
                            activities |-> 115 * Scale, food |-> 300 * Scale,
                            miscellaneous |-> 140 * Scale, total |-> 1895 * Scale])]
    [] OTHER -> [raised |-> TRUE]

\* What call_llm(prompt) does in one call: it raises an Exception, returns a
\* text, or returns None.
LlmBehaviours ==
  {[kind |-> "raises"], [kind |-> "returns_none"]}
    \cup {[kind |-> "returns", text |-> t] : t \in ResponseTexts}

\* A plausible slip: the handler returns an empty record instead of the
\* initial budget.
RefineBudgetWithLlmEmptyOnError(travel_plan, initial_budget, behaviour) ==
  IF JsonDumpsRaises(travel_plan)
    THEN [status |-> "raised", error |-> "TypeError", argument |-> initial_budget]
  ELSE IF behaviour.kind = "raises" \/ behaviour.kind = "returns_none"
    THEN [status |-> "returned", value |-> PyDict(EmptyDict), argument |-> initial_budget]
  ELSE IF JsonLoads(behaviour.text).raised
    THEN [status |-> "returned", value |-> PyDict(EmptyDict), argument |-> initial_budget]
  ELSE [status |-> "returned", value |-> JsonLoads(behaviour.text).value,
        argument |-> initial_budget]

\* refine_budget_with_llm: how the call ends (a return with its value, or an
\* exception that reaches the caller) and the initial_budget argument as the
\* call leaves it.
RefineBudgetWithLlm(travel_plan, initial_budget, behaviour) ==
  IF JsonDumpsRaises(travel_plan)
    \* the prompt is built before the try block
    THEN [status |-> "raised", error |-> "TypeError", argument |-> initial_budget]
  ELSE IF behaviour.kind = "raises"
    THEN [status |-> "returned", value |-> PyDict(initial_budget), argument |-> initial_budget]
  ELSE IF behaviour.kind = "returns_none"
    \* json.loads(None) raises TypeError inside the try block
    THEN [status |-> "returned", value |-> PyDict(initial_budget), argument |-> initial_budget]
  ELSE IF JsonLoads(behaviour.text).raised
    THEN [status |-> "returned", value |-> PyDict(initial_budget), argument |-> initial_budget]
  ELSE [status |-> "returned", value |-> JsonLoads(behaviour.text).value,
        argument |-> initial_budget]

----------------------------------------------------------------------------
(* Inputs *)

\* the largest duration (nights) and the longest activity list of the plans
MaxDuration == 3
MaxActivities == 2

\* An optional field is a set holding the value, or the empty set.
Opt(key, s) == IF s = {} THEN EmptyDict ELSE key :> (CHOOSE x \in s : TRUE)
Maybe(S) == {{}} \cup {{x} : x \in S}

MkPlan(dest, dur, acc, tr, acts, dep) ==
  Opt("destination", dest) @@ Opt("duration", dur) @@ Opt("accommodation", acc)
    @@ Opt("transportation", tr) @@ Opt("activities", acts) @@ Opt("departure", dep)

Durations == (-1)..MaxDuration

Destinations ==
  {<<>>, in_ParisFrance, in_TokyoAsia, in_EuropeOrAsia, in_AsiaUsa, in_Jerusalem,
   in_SouthAmerica, in_SouthAmericaJoined, in_CANADA}

AccommodationRecords ==
  {Opt("type", t) @@ Opt("quality", q) :
     t \in Maybe({s_hotel, in_Hostel, in_RESORT, in_igloo}),
     q \in Maybe({s_budget, s_medium, s_luxury, in_LUXURY, in_deluxe})}
  \cup {[stars |-> 4]}

TransportationRecords ==
  {Opt("type", t) @@ Opt("quality", q) @@ Opt("distance", d) :
     t \in Maybe({s_flight, in_Bus, in_rocket}),
     q \in Maybe({s_economy, in_First, in_vip}),
     d \in Maybe({0, 100, 3600})}

ActivityRecords ==
  {EmptyDict,
   [type |-> in_Museum],
   [type |-> in_Museum, quality |-> s_free],
   [type |-> s_museum, quality |-> s_standard, duration |-> 1],
   [type |-> s_adventure, quality |-> s_free],
   [type |-> s_adventure, quality |-> in_PREMIUM, duration |-> 1],
   [type |-> s_adventure, quality |-> in_PREMIUM, duration |-> 5],
   [type |-> in_yoga, quality |-> in_PREMIUM],
   [type |-> in_yoga, quality |-> in_gold, duration |-> 5],
   [quality |-> in_gold]}

RECURSIVE SeqsUpTo(_, _)
SeqsUpTo(S, n) ==
  IF n = 0 THEN {<<>>}
  ELSE LET shorter == SeqsUpTo(S, n - 1)
       IN  shorter \cup {Append(s, x) : s \in shorter, x \in S}

ActivityLists == SeqsUpTo(ActivityRecords, MaxActivities)

Departures == {[pytype |-> "str"], [pytype |-> "date"]}

\* the plan of main()
ExampleAccommodation == [type |-> s_hotel, quality |-> s_medium]
ExampleTransportation == [type |-> s_flight, distance |-> 3600, quality |-> s_economy]
ExampleActivities ==
  <<[type |-> s_museum, quality |-> s_standard],
    [type |-> s_sightseeing, quality |-> s_standard],
    [type |-> s_dining, quality |-> s_premium]>>
ExamplePlan ==
  [destination |-> in_ParisFrance, duration |-> 7,
   accommodation |-> ExampleAccommodation,
   transportation |-> ExampleTransportation,
   activities |-> ExampleActivities]

\* every subset of the fields present, with and without a departure
PlansFields ==
  {MkPlan(dest, dur, acc, tr, acts, dep) :
     dest \in Maybe({in_ParisFrance}), dur \in Maybe({MaxDuration}),
     acc \in Maybe({ExampleAccommodation}), tr \in Maybe({ExampleTransportation}),
     acts \in Maybe({ExampleActivities}), dep \in Maybe(Departures)}

PlansAccommodation ==
  {MkPlan({in_ParisFrance}, dur, acc, {}, {}, {}) :
     dur \in Maybe(Durations), acc \in Maybe(AccommodationRecords)}

PlansTransportation ==
  {MkPlan({}, dur, {}, tr, {}, {}) :
     dur \in Maybe({2}), tr \in Maybe(TransportationRecords)}

PlansActivities ==
  {MkPlan({}, dur, {}, {}, acts, {}) :
     dur \in Maybe({2}), acts \in Maybe(ActivityLists)}

PlansFood ==
  {MkPlan(dest, dur, {}, {}, {}, {}) :
     dest \in Maybe(Destinations), dur \in Maybe(Durations)}

Plans ==
  {ExamplePlan} \cup PlansFields \cup PlansAccommodation \cup PlansTransportation
    \cup PlansActivities \cup PlansFood

\* initial_budget arguments a caller passes besides the estimate itself
OtherBudgets == {EmptyDict, [total |-> 5 * Scale]}

----------------------------------------------------------------------------
(* The state machine: a caller estimates the budget of a plan, then asks   *)
(* for its refinement.                                                     *)

NoCall == [status |-> "none"]

Init ==
  /\ plan \in Plans
  /\ pc = "start"
  /\ budget = EmptyDict
  /\ passed_budget = EmptyDict
  /\ llm = [kind |-> "none"]
  /\ outcome = NoCall

\* budget = estimator.estimate_budget(plan)
EstimateBudgetCall ==
  /\ pc = "start"
  /\ budget' = EstimateBudget(plan)
  /\ pc' = "estimated"
  /\ UNCHANGED <<plan, passed_budget, llm, outcome>>

\* estimator.refine_budget_with_llm(plan, arg), with the collaborator
\* behaving as behaviour when it is called; llm records what it did.
RefineBudgetCall(arg, behaviour) ==
  /\ pc = "estimated"
  /\ llm' = IF JsonDumpsRaises(plan) THEN [kind |-> "not_called"] ELSE behaviour
  /\ passed_budget' = arg
  /\ outcome' = RefineBudgetWithLlm(plan, arg, behaviour)
  /\ pc' = "refined"
  /\ UNCHANGED <<plan, budget>>

Next ==
  \/ EstimateBudgetCall
  \/ \E arg \in {budget} \cup OtherBudgets, behaviour \in LlmBehaviours :
       RefineBudgetCall(arg, behaviour)

Spec == Init /\ [][Next]_vars

----------------------------------------------------------------------------
(* Properties *)

BudgetKeys ==
  {"accommodation", "transportation", "activities", "food", "miscellaneous", "total"}

Estimated == pc # "start"

PlanDuration == Get(plan, "duration", 0)

\* C1: the breakdown estimate_budget returns has
\* total = accommodation + transportation + activities + food + miscellaneous.
C1_TotalIsSumOfCategories ==
  Estimated =>
    budget.total = budget.accommodation + budget.transportation
                     + budget.activities + budget.food + budget.miscellaneous

\* the documented example: every category is charged, 700 + 540 + 115 + 280 + 140
C1_Witness ==
  /\ pc = "estimated"
  /\ plan = ExamplePlan
  /\ budget.accommodation = 700 * Scale /\ budget.transportation = 540 * Scale
  /\ budget.activities = 115 * Scale /\ budget.food = 280 * Scale
  /\ budget.miscellaneous = 140 * Scale /\ budget.total = 1775 * Scale

\* the response texts that are not JSON
UnparseableTexts == {TextProse, TextEmpty, TextPrefixed}

LlmFailed ==
  \/ llm.kind = "raises"
  \/ llm.kind = "returns" /\ llm.text \in UnparseableTexts

\* C2: when the LLM collaborator raises or returns text that is not JSON,
\* refine_budget_with_llm returns a record equal to its initial_budget argument
\* and leaves that argument as it was.
C2_FailureReturnsInitialBudget ==
  (pc = "refined" /\ LlmFailed) =>
    /\ outcome.status = "returned"
    /\ outcome.value = PyDict(passed_budget)
    /\ outcome.argument = passed_budget

C2_Witness ==
  /\ pc = "refined"
  /\ llm.kind = "returns" /\ llm.text = TextPrefixed
  /\ passed_budget = budget /\ budget.total > 0
  /\ outcome.status = "returned" /\ outcome.value = PyDict(budget)

\* C3: every call of refine_budget_with_llm ends in a normal return, whatever
\* the plan and whatever the collaborator does.
C3_RefineNeverRaises ==
  pc = "refined" => outcome.status = "returned"

\* C4: the breakdown estimate_budget returns has exactly the six category keys
\* and every amount is non-negative.
C4_BreakdownNonNegative ==
  Estimated =>
    /\ DOMAIN budget = BudgetKeys
    /\ \A k \in BudgetKeys : budget[k] >= 0

\* The lookup policy the claims state: an unknown type resolves to the table
\* of fallback_type, an unknown quality in the resolved table to default.
PolicyRate(rates, type, quality, fallback_type, default) ==
  LET resolved == IF Lower(type) \in DOMAIN rates THEN rates[Lower(type)]
                  ELSE rates[fallback_type]
  IN  IF Lower(quality) \in DOMAIN resolved THEN resolved[Lower(quality)]
      ELSE default

HasKeys(d, keys) == keys \subseteq DOMAIN d

\* C5: accommodation cost = nightly rate x duration, the rate looked up by the
\* case-folded (type, quality) with unknown type -> hotel table and unknown
\* quality -> 100; an absent or empty record costs 0; (hotel, luxury, 3) = 600
\* and (igloo, medium, 2) = 200.
C5_AccommodationCost ==
  Estimated =>
    LET acc == Get(plan, "accommodation", EmptyDict) IN
    /\ acc = EmptyDict => budget.accommodation = 0
    /\ HasKeys(acc, {"type", "quality"}) =>
         budget.accommodation =
           PolicyRate(AccommodationRates, acc.type, acc.quality, s_hotel, 100 * Scale)
             * PlanDuration
    /\ (acc = [type |-> s_hotel, quality |-> s_luxury] /\ PlanDuration = 3)
         => budget.accommodation = 600 * Scale
    /\ (acc = [type |-> in_igloo, quality |-> s_medium] /\ PlanDuration = 2)
         => budget.accommodation = 200 * Scale
    /\ (acc = [type |-> in_Hostel, quality |-> in_LUXURY] /\ PlanDuration = 2)
         => budget.accommodation = 100 * Scale
    /\ (acc = [type |-> in_Hostel, quality |-> in_deluxe] /\ PlanDuration = 2)
         => budget.accommodation = 200 * Scale

\* an unknown type with a quality of the hotel table
C5_Witness ==
  /\ pc = "estimated"
  /\ "accommodation" \in DOMAIN plan
  /\ plan["accommodation"] = [type |-> in_igloo, quality |-> s_luxury]
  /\ PlanDuration = 2
  /\ budget.accommodation = 400 * Scale

\* C6: transportation cost = rate x distance, the rate looked up by the
\* case-folded (type, quality) with unknown type -> flight table and unknown
\* quality -> 0.15; an absent or empty record costs 0; the duration of the plan
\* plays no part; (flight, economy, 3600) = 540.
C6_TransportationCost ==
  Estimated =>
    LET tr == Get(plan, "transportation", EmptyDict) IN
    /\ tr = EmptyDict => budget.transportation = 0
    /\ HasKeys(tr, {"type", "quality", "distance"}) =>
         budget.transportation =
           PolicyRate(TransportationRates, tr.type, tr.quality, s_flight, 15)
             * tr.distance
    /\ tr = [type |-> s_flight, quality |-> s_economy, distance |-> 3600]
         => budget.transportation = 540 * Scale
    /\ tr = [type |-> in_Bus, quality |-> in_First, distance |-> 100]
         => budget.transportation = 12 * Scale
    /\ tr = [type |-> in_Bus, quality |-> in_vip, distance |-> 100]
         => budget.transportation = 15 * Scale
    /\ tr = [type |-> in_rocket, quality |-> in_First, distance |-> 100]
         => budget.transportation = 50 * Scale

\* a case-folded lookup in a plan that has a duration
C6_Witness ==
  /\ pc = "estimated"
  /\ "transportation" \in DOMAIN plan
  /\ plan["transportation"] = [type |-> in_Bus, quality |-> in_First, distance |-> 3600]
  /\ PlanDuration = 2
  /\ budget.transportation = 432 * Scale

\* the sum of the policy rates of the records of an activity list
RECURSIVE PolicyActivitySum(_)
PolicyActivitySum(acts) ==
  IF acts = <<>> THEN 0
  ELSE PolicyRate(ActivityRates, Head(acts).type, Head(acts).quality,
                  s_sightseeing, 15 * Scale)
         + PolicyActivitySum(Tail(acts))

\* the activity list with the duration field of every record set to hours
WithHours(acts, hours) ==
  [i \in 1..Len(acts) |->
     [k \in DOMAIN acts[i] \cup {"duration"} |->
        IF k = "duration" THEN hours ELSE acts[i][k]]]

\* C7: activities cost = the sum over the records of a flat rate looked up by
\* the case-folded (type, quality) with unknown type -> sightseeing table and
\* unknown quality -> 15; the duration-hours of the records play no part; the
\* empty list costs 0.
C7_ActivitiesCost ==
  Estimated =>
    LET acts == Get(plan, "activities", <<>>) IN
    /\ acts = <<>> => budget.activities = 0
    /\ (\A i \in 1..Len(acts) : HasKeys(acts[i], {"type", "quality"}))
         => budget.activities = PolicyActivitySum(acts)
    /\ \A hours \in {1, 8} :
         EstimateActivityCost(WithHours(acts, hours)) = budget.activities

\* two records that differ only in their hours, 100 each
C7_Witness ==
  /\ pc = "estimated"
  /\ "activities" \in DOMAIN plan
  /\ plan["activities"] =
       <<[type |-> s_adventure, quality |-> in_PREMIUM, duration |-> 1],
         [type |-> s_adventure, quality |-> in_PREMIUM, duration |-> 5]>>
  /\ budget.activities = 200 * Scale

\* the factor the claim states, in hundredths
PolicyFoodFactor(destination) ==
  LET text == Lower(destination)
      first == \E w \in {s_europe, s_usa, s_canada, s_australia} : Contains(text, w)
      second == \E w \in {s_asia, s_south_america, s_africa} : Contains(text, w)
  IN  IF first THEN 150 ELSE IF second THEN 70 ELSE 100

\* C8: food cost = 40 x factor x duration; the factor is 1.5 when the
\* destination contains, whatever the case, one of europe/usa/canada/australia,
\* else 0.7 when it contains one of asia/south america/africa, else 1.0; a
\* destination with a keyword of both groups gets 1.5; "Paris, France" gets 1.0
\* and "Tokyo, Asia" 0.7.
C8_FoodCost ==
  Estimated =>
    LET destination == Get(plan, "destination", <<>>) IN
    /\ budget.food = 40 * PolicyFoodFactor(destination) * PlanDuration
    /\ destination = in_ParisFrance => budget.food = 40 * Scale * PlanDuration
    /\ destination = in_TokyoAsia => budget.food = 28 * Scale * PlanDuration
    /\ destination \in {in_EuropeOrAsia, in_AsiaUsa, in_CANADA}
         => budget.food = 60 * Scale * PlanDuration
    /\ destination = in_SouthAmerica => budget.food = 28 * Scale * PlanDuration

\* a destination with a keyword of both groups
C8_Witness ==
  /\ pc = "estimated"
  /\ "destination" \in DOMAIN plan /\ plan["destination"] = in_AsiaUsa
  /\ PlanDuration = 2
  /\ budget.food = 120 * Scale

\* the plan with a missing duration set to 0 and a missing destination to ""
Completed(travel_plan) ==
  travel_plan @@ ("duration" :> 0) @@ ("destination" :> <<>>)

ZeroBreakdown == [k \in BudgetKeys |-> 0]

\* C9: estimate_budget returns a breakdown for every plan with any subset of
\* its fields missing: a missing duration counts as 0, a missing destination as
\* the empty text, a category whose sub-record is missing costs 0, and the
\* empty plan yields six zero amounts.
C9_MissingFields ==
  Estimated =>
    /\ DOMAIN budget = BudgetKeys
    /\ budget = EstimateBudget(Completed(plan))
    /\ "duration" \notin DOMAIN plan =>
         budget.accommodation = 0 /\ budget.food = 0 /\ budget.miscellaneous = 0
    /\ "accommodation" \notin DOMAIN plan => budget.accommodation = 0
    /\ "transportation" \notin DOMAIN plan => budget.transportation = 0
    /\ "activities" \notin DOMAIN plan => budget.activities = 0
    /\ plan = EmptyDict => budget = ZeroBreakdown

\* a plan with only its sub-records: no duration and no destination
C9_Witness ==
  /\ pc = "estimated"
  /\ DOMAIN plan = {"accommodation", "transportation", "activities"}
  /\ budget.accommodation = 0 /\ budget.food = 0 /\ budget.miscellaneous = 0
  /\ budget.transportation = 540 * Scale /\ budget.activities = 115 * Scale

\* C10: given the estimate as initial_budget, every record
\* refine_budget_with_llm returns has the six category keys and a total equal
\* to the sum of its other five amounts.
C10_RefinedIsBreakdown ==
  (pc = "refined" /\ passed_budget = budget /\ outcome.status = "returned") =>
    /\ outcome.value.kind = "dict"
    /\ DOMAIN outcome.value.dict = BudgetKeys
    /\ LET b == outcome.value.dict
       IN  b.total = b.accommodation + b.transportation + b.activities
                       + b.food + b.miscellaneous
====
